---------------------------- MODULE Spec2Model ----------------------------
(***************************************************************************)
(* A model of osu-anticheat: replay.py (Interpolation, Replay.interpolate, *)
(* Replay.resample, Replay.skip_breaks, Replay.as_list_with_timestamps)    *)
(* and comparer.py (Comparer.compare, check_names, _print_result,          *)
(* _compare_two_replays, _compute_data_similarity).                        *)
(*                                                                         *)
(* A sample is the tuple <<t, x, y>> of the source.  Timestamps of the     *)
(* inputs are integers.  Coordinates, the ratio dt1 / dt2 and every value  *)
(* computed from them are Python floats (IEEE 754 binary64), computed with *)
(* the rounding of the source's arithmetic; an input coordinate c is       *)
(* FFromInt(c).                                                            *)
(***************************************************************************)
EXTENDS Integers, Sequences, FiniteSets, TLC

(***************************************************************************)
(* Bounds of the inputs.                                                   *)
(***************************************************************************)
MaxT == 4
MaxLen == 3

(***************************************************************************)
(* Natural numbers of any size: little-endian sequences of limbs in        *)
(* 0..LimbBase-1, without leading zero limbs; <<>> is 0.  An operation     *)
(* tests its operands before it computes with them.                        *)
(***************************************************************************)
LimbBits == 15
LimbBase == 32768

Abs(n) == IF n < 0 THEN -n ELSE n

Min(S) == CHOOSE m \in S : \A n \in S : m <= n

Max(S) == CHOOSE m \in S : \A n \in S : n <= m

Limb(a, i) == IF 1 <= i /\ i <= Len(a) THEN a[i] ELSE 0

\* the limbs of a up to its top limb that is not 0
BTrim(a) == SubSeq(a, 1, Max({0} \cup {i \in 1..Len(a) : a[i] # 0}))

\* the limbs of n, for 0 <= n < 2^31
BFromNat(n) ==
    BTrim(<<n % LimbBase, (n \div LimbBase) % LimbBase,
            n \div (LimbBase * LimbBase)>>)

\* for a and b of one length that differ in the limbs of the set differ
BCmpAt(a, b, differ) ==
    IF differ = {} THEN 0
    ELSE IF a[Max(differ)] < b[Max(differ)] THEN -1 ELSE 1

\* -1, 0, 1 as a < b, a = b, a > b
BCmp(a, b) ==
    IF Len(a) < Len(b) THEN -1
    ELSE IF Len(a) > Len(b) THEN 1
    ELSE BCmpAt(a, b, {i \in 1..Len(a) : a[i] # b[i]})

\* the carry into limb i of a + b: a limb below i overflows and the limbs
\* between pass the carry on
CarryInto(a, b, i) ==
    \E j \in 1..(i - 1) :
        /\ Limb(a, j) + Limb(b, j) >= LimbBase
        /\ \A m \in (j + 1)..(i - 1) : Limb(a, m) + Limb(b, m) = LimbBase - 1

BAdd(a, b) ==
    IF a = <<>> THEN b
    ELSE IF b = <<>> THEN a
    ELSE BTrim([i \in 1..(Max({Len(a), Len(b)}) + 1) |->
                  (Limb(a, i) + Limb(b, i)
                   + IF CarryInto(a, b, i) THEN 1 ELSE 0) % LimbBase])

\* the borrow from limb i of a - b
BorrowFrom(a, b, i) ==
    \E j \in 1..(i - 1) :
        /\ a[j] < Limb(b, j)
        /\ \A m \in (j + 1)..(i - 1) : a[m] = Limb(b, m)

\* a - b for a >= b
BSub(a, b) ==
    IF b = <<>> \/ a = <<>> THEN a
    ELSE BTrim([i \in 1..Len(a) |->
                  (LimbBase + a[i] - Limb(b, i)
                   - IF BorrowFrom(a, b, i) THEN 1 ELSE 0) % LimbBase])

\* a * 2^n, n = LimbBits * dl + k: a limb takes the low part of its product
\* with 2^k and the high part of the product of the limb below
BShl(a, n) ==
    IF a = <<>> THEN <<>>
    ELSE LET dl == n \div LimbBits
             p == 2 ^ (n % LimbBits)
         IN  BTrim([i \in 1..(Len(a) + dl + 1) |->
                       ((Limb(a, i - dl) * p) % LimbBase)
                       + ((Limb(a, i - dl - 1) * p) \div LimbBase)])

\* floor(a / 2^n), n = LimbBits * dl + k
BShr(a, n) ==
    IF a = <<>> THEN <<>>
    ELSE LET dl == n \div LimbBits
             p == 2 ^ (n % LimbBits)
         IN  BTrim([i \in 1..Max({0, Len(a) - dl}) |->
                       (a[i + dl] \div p)
                       + ((Limb(a, i + dl + 1) % p) * (LimbBase \div p))])

\* a * s for 0 <= s <= LimbBase: the low parts of the limb products plus
\* their high parts one limb up
BMulSmall(a, s) ==
    IF s = 0 \/ a = <<>> THEN <<>>
    ELSE BAdd(BTrim([i \in 1..Len(a) |-> (a[i] * s) % LimbBase]),
              BTrim([i \in 1..(Len(a) + 1) |->
                        (Limb(a, i - 1) * s) \div LimbBase]))

RECURSIVE BMulFrom(_, _, _)
BMulFrom(a, b, i) ==
    IF i > Len(b) THEN <<>>
    ELSE BAdd(BShl(BMulSmall(a, b[i]), (i - 1) * LimbBits),
              BMulFrom(a, b, i + 1))

BMul(a, b) == BMulFrom(a, b, 1)

\* a divided by d for 0 < d < LimbBase: the quotient limbs 1..i and the
\* remainder, for rem the remainder of the limbs of a above i
RECURSIVE BDivSmallFrom(_, _, _, _)

\* for cur the remainder so far with the limb i of a brought down
BDivSmallAt(a, d, i, cur) ==
    LET lower == IF cur < d THEN BDivSmallFrom(a, d, i - 1, cur)
                 ELSE BDivSmallFrom(a, d, i - 1, cur % d)
    IN  [q |-> Append(lower.q, cur \div d), r |-> lower.r]

BDivSmallFrom(a, d, i, rem) ==
    IF i = 0 THEN [q |-> <<>>, r |-> rem]
    ELSE BDivSmallAt(a, d, i, rem * LimbBase + a[i])

BDivSmallOut(dm) == [q |-> BTrim(dm.q), r |-> BFromNat(dm.r)]

BDivSmall(a, d) == BDivSmallOut(BDivSmallFrom(a, d, Len(a), 0))

\* the number of bits of n, for 0 <= n < 2^31: the powers of two up to n
BitLenInt(n) == Cardinality({k \in 0..30 : 2 ^ k <= n})

\* the number of bits of a
BBitLen(a) ==
    IF a = <<>> THEN 0 ELSE (Len(a) - 1) * LimbBits + BitLenInt(a[Len(a)])

\* the number of trailing zero bits of a > 0: those of the limbs below the
\* lowest limb low that is not 0 and the powers of two that divide that limb
BTrailingZeros(a) ==
    LET low == Min({i \in 1..Len(a) : a[i] # 0})
    IN  (low - 1) * LimbBits
        + Cardinality({k \in 1..LimbBits : a[low] % (2 ^ k) = 0})

\* the largest digit with d * digit <= cur, for cur < d * LimbBase and d of
\* two limbs or more with a top limb of LimbBase / 2 or more: the estimate
\* c from the top limbs is the digit or at most 2 above it
BDigitNear(cur, d, c) ==
    IF BCmp(BMulSmall(d, c), cur) <= 0 THEN c
    ELSE IF BCmp(BMulSmall(d, c - 1), cur) <= 0 THEN c - 1
    ELSE c - 2

BDigit(cur, d) ==
    BDigitNear(cur, d,
               Min({LimbBase - 1,
                    (Limb(cur, Len(d) + 1) * LimbBase + Limb(cur, Len(d)))
                    \div d[Len(d)]}))

\* long division: the quotient limbs 1..i and the remainder, for rem the
\* remainder of the limbs of a above i
RECURSIVE BDivModFrom(_, _, _, _)

\* the limb i of the quotient is c, for cur the remainder so far with the
\* limb i of a brought down
BDivModDigit(a, d, i, cur, c) ==
    LET lower == IF c = 0 THEN BDivModFrom(a, d, i - 1, cur)
                 ELSE BDivModFrom(a, d, i - 1, BSub(cur, BMulSmall(d, c)))
    IN  [q |-> Append(lower.q, c), r |-> lower.r]

BDivModAt(a, d, i, cur) == BDivModDigit(a, d, i, cur, BDigit(cur, d))

BDivModFrom(a, d, i, rem) ==
    IF i = 0 THEN [q |-> <<>>, r |-> rem]
    ELSE BDivModAt(a, d, i, BTrim(<<a[i]>> \o rem))

\* a by d, for d with a top limb of LimbBase / 2 or more: the top
\* Len(d) - 1 limbs of a are below d
BDivModBy(a, d) ==
    IF Len(a) < Len(d) THEN [q |-> <<>>, r |-> a]
    ELSE BDivModFrom(a, d, Len(a) - Len(d) + 1,
                     SubSeq(a, Len(a) - Len(d) + 2, Len(a)))

BDivModScaled(dm, k) == [q |-> BTrim(dm.q), r |-> BShr(dm.r, k)]

\* quotient and remainder of a by d > 0; a divisor of two limbs or more is
\* scaled by 2^k to bring its top limb to LimbBase / 2 or more
BDivMod(a, d) ==
    IF Len(d) = 1 THEN BDivSmall(a, d[1])
    ELSE BDivModScaled(BDivModBy(BShl(a, LimbBits - BitLenInt(d[Len(d)])),
                                 BShl(d, LimbBits - BitLenInt(d[Len(d)]))),
                       LimbBits - BitLenInt(d[Len(d)]))

\* Newton's iteration for floor(sqrt(n)) from x >= floor(sqrt(n)), for y the
\* next iterate
RECURSIVE ISqrtFrom(_, _)

\* Newton's iteration for floor(sqrt(n)) from x >= floor(sqrt(n)), for y the
\* next iterate
ISqrtFrom(n, x) ==
    LET y == (x + n \div x) \div 2
    IN  IF y >= x THEN x ELSE ISqrtFrom(n, y)

\* floor(sqrt(n)) for 0 <= n < 2^30
ISqrt(n) ==
    IF n = 0 THEN 0 ELSE ISqrtFrom(n, 2 ^ ((BitLenInt(n) + 1) \div 2))

\* Newton's iteration for floor(sqrt(a)) from x >= floor(sqrt(a)), for y
\* the next iterate
RECURSIVE BISqrtFrom(_, _)

\* Newton's iteration for floor(sqrt(a)) from x >= floor(sqrt(a)), for y
\* the next iterate
BISqrtFrom(a, x) ==
    LET y == BShr(BAdd(x, BDivMod(a, x).q), 1)
    IN  IF BCmp(y, x) >= 0 THEN x ELSE BISqrtFrom(a, y)

\* floor(sqrt(a)) for a of more than 30 bits, started from the root of the
\* top bits of a, those above an even number sh of low bits
BISqrtTop(a, sh, top) ==
    BISqrtFrom(a, BShl(BFromNat(ISqrt(Limb(top, 1) + Limb(top, 2) * LimbBase)
                                + 1),
                       sh \div 2))

\* floor(sqrt(a)) for a of more than 30 bits
BISqrt(a) ==
    LET sh == 2 * ((BBitLen(a) - 29) \div 2)
    IN  BISqrtTop(a, sh, BShr(a, sh))

(***************************************************************************)
(* Python floats (IEEE 754 binary64, round to nearest, ties to even).  A   *)
(* float is <<s, m, e>>.  With m not <<>> it stands for s * m * 2^e: s is  *)
(* -1 or 1, m an odd natural number below 2^53 in limbs, e an integer from *)
(* MinExponent on.  0.0 is <<0, <<>>, 0>>, inf and -inf are <<1, <<>>, 1>> *)
(* and <<-1, <<>>, 1>>, nan is <<0, <<>>, 1>>.  Every operation computes   *)
(* the exact result and rounds it: to 53 significant bits, to a multiple   *)
(* of 2^MinExponent below 2^-1022 (subnormals), to an infinity from        *)
(* 2^MaxExponent on.  The sign of zero is not modelled.  A value that an   *)
(* operation uses more than once is the parameter of a helper operator.    *)
(***************************************************************************)
MantissaBits == 53
MinExponent == -1074
MaxExponent == 1024

FZero == <<0, <<>>, 0>>

FNaN == <<0, <<>>, 1>>

FInf(s) == <<s, <<>>, 1>>

\* nan, inf or -inf
IsSpecial(a) == a[2] = <<>> /\ a[3] = 1

IsInf(a) == IsSpecial(a) /\ a[1] # 0

\* s * M * 2^E for M of at most 53 bits, which has tz trailing zero bits
FCanon(s, M, E) ==
    IF M = <<>> THEN FZero
    ELSE LET tz == BTrailingZeros(M) IN <<s, BShr(M, tz), E + tz>>

\* s * M * 2^E for M of at most 53 bits: an infinity from 2^MaxExponent on
FRanged(s, M, E) ==
    IF BBitLen(M) + E > MaxExponent THEN FInf(s) ELSE FCanon(s, M, E)

\* round to nearest, ties to even, for c the bits that q leaves off against
\* half a unit of q: -1 below, 0 a tie, 1 above
RoundsUp(c, q) == c = 1 \/ (c = 0 /\ Limb(q, 1) % 2 = 1)

\* s * M * 2^E with the lowest cut bits of M rounded away, for
\* q = floor(M / 2^cut)
FRoundQ(s, M, E, cut, q) ==
    FRanged(s,
            IF cut > 0
               /\ RoundsUp(BCmp(BSub(M, BShl(q, cut)), BShl(<<1>>, cut - 1)),
                           q)
            THEN BAdd(q, <<1>>) ELSE q,
            E + cut)

FRoundCut(s, M, E, cut) == FRoundQ(s, M, E, cut, BShr(M, cut))

\* s * M * 2^E rounded to 53 significant bits and to a multiple of
\* 2^MinExponent
FRound(s, M, E) ==
    IF M = <<>> THEN FZero
    ELSE FRoundCut(s, M, E,
                   Max({0, BBitLen(M) - MantissaBits, MinExponent - E}))

\* float(n) of an integer n (exact below 2^31)
FFromInt(n) ==
    IF n = 0 THEN FZero
    ELSE FCanon(IF n < 0 THEN -1 ELSE 1, BFromNat(Abs(n)), 0)

FOne == FFromInt(1)

FAbs(a) == <<Abs(a[1]), a[2], a[3]>>

\* -1, 0, 1 as a < b, a = b, a > b, for a and b not nan: by the signs, then
\* by the magnitudes, an infinity above every finite value, finite values by
\* their top bits and then by their mantissas at the lower exponent
FCmp(a, b) ==
    IF a[1] # b[1] THEN (IF a[1] < b[1] THEN -1 ELSE 1)
    ELSE IF a[1] = 0 THEN 0
    ELSE IF IsSpecial(a) THEN (IF IsSpecial(b) THEN 0 ELSE a[1])
    ELSE IF IsSpecial(b) THEN 0 - a[1]
    ELSE LET ta == BBitLen(a[2]) + a[3]
             tb == BBitLen(b[2]) + b[3]
             e == Min({a[3], b[3]})
         IN  IF ta < tb THEN 0 - a[1]
             ELSE IF ta > tb THEN a[1]
             ELSE a[1] * BCmp(BShl(a[2], a[3] - e), BShl(b[2], b[3] - e))

\* a < b and a <= b: False when a or b is nan
FLt(a, b) == a # FNaN /\ b # FNaN /\ FCmp(a, b) < 0
FLe(a, b) == a # FNaN /\ b # FNaN /\ FCmp(a, b) <= 0

\* sa * ma * 2^e + sb * mb * 2^e, for c the comparison of ma with mb
FAddAligned(sa, ma, sb, mb, e) ==
    LET c == BCmp(ma, mb)
    IN  FRound(IF sa = sb \/ c > 0 THEN sa ELSE sb,
               IF sa = sb THEN BAdd(ma, mb)
               ELSE IF c > 0 THEN BSub(ma, mb) ELSE BSub(mb, ma),
               e)

\* a + b: nan when a or b is nan, and for inf + -inf
FAdd(a, b) ==
    IF a = FNaN \/ b = FNaN THEN FNaN
    ELSE IF IsSpecial(a) /\ IsSpecial(b) THEN (IF a = b THEN a ELSE FNaN)
    ELSE IF IsSpecial(a) THEN a
    ELSE IF IsSpecial(b) THEN b
    ELSE IF a[1] = 0 THEN b
    ELSE IF b[1] = 0 THEN a
    ELSE FAddAligned(a[1], BShl(a[2], a[3] - Min({a[3], b[3]})),
                     b[1], BShl(b[2], b[3] - Min({a[3], b[3]})),
                     Min({a[3], b[3]}))

\* a - b
FSub(a, b) == FAdd(a, <<0 - b[1], b[2], b[3]>>)

\* a * b: nan when a or b is nan, and for 0.0 * inf
FMul(a, b) ==
    IF IsSpecial(a) \/ IsSpecial(b)
    THEN (IF a[1] = 0 \/ b[1] = 0 THEN FNaN ELSE FInf(a[1] * b[1]))
    ELSE IF a[1] = 0 \/ b[1] = 0 THEN FZero
    ELSE FRound(a[1] * b[1], BMul(a[2], b[2]), a[3] + b[3])

\* 2 * q + sticky: q holds at least 55 bits of an exact result, sticky is 1
\* when that result has further non-zero bits
Sticky(q, inexact) ==
    IF inexact THEN BAdd(BMulSmall(q, 2), <<1>>) ELSE BMulSmall(q, 2)

\* a / b with the mantissa of a shifted left by sh bits, for a quotient of
\* at least 55 bits
FDivShifted(a, b, sh) ==
    LET dm == BDivMod(BShl(a[2], sh), b[2])
    IN  FRound(a[1] * b[1], Sticky(dm.q, dm.r # <<>>), a[3] - b[3] - sh - 1)

\* a / b for b not 0.0: nan when a or b is nan, and for inf / inf
FDiv(a, b) ==
    IF a = FNaN \/ b = FNaN \/ (IsSpecial(a) /\ IsSpecial(b)) THEN FNaN
    ELSE IF IsSpecial(a) THEN FInf(a[1] * b[1])
    ELSE IF IsSpecial(b) \/ a[1] = 0 THEN FZero
    ELSE FDivShifted(a, b, Max({0, 56 + BBitLen(b[2]) - BBitLen(a[2])}))

\* the mantissa of a as an integer, when it has at most two limbs
SmallMantissa(a) == a[2][1] + Limb(a[2], 2) * LimbBase

\* the square root of m * 2^e for e even and m < 2^30, for root the integer
\* square root of m: exact when m is a square
FSqrtSmall(a, root) ==
    IF root * root = SmallMantissa(a) THEN <<1, BFromNat(root), a[3] \div 2>>
    ELSE <<>>

\* the square root of m * 2^e with the mantissa shifted left by sh bits, for
\* a root of at least 55 bits
FSqrtShifted(a, sh) ==
    LET n == BShl(a[2], sh)
        q == BISqrt(n)
    IN  FRound(1, Sticky(q, BMul(q, q) # n), ((a[3] - sh) \div 2) - 1)

\* the square root of a finite a > 0.0: the shift is sh or sh + 1, whichever
\* leaves the exponent even
FSqrtGeneral(a) ==
    LET sh == Max({0, 110 - BBitLen(a[2])})
    IN  FSqrtShifted(a, sh + ((a[3] - sh) % 2))

\* the square root of a finite a > 0.0, for exact the value of FSqrtSmall
\* when the mantissa is small and the exponent even
FSqrtFrom(a, exact) == IF exact # <<>> THEN exact ELSE FSqrtGeneral(a)

FSqrtFinite(a) ==
    IF Len(a[2]) <= 2 /\ a[3] % 2 = 0
    THEN FSqrtFrom(a, FSqrtSmall(a, ISqrt(SmallMantissa(a))))
    ELSE FSqrtGeneral(a)

\* the square root of a: nan for a below 0.0
FSqrt(a) ==
    IF a = FNaN \/ a[1] < 0 THEN FNaN
    ELSE IF a[1] = 0 \/ IsSpecial(a) THEN a
    ELSE FSqrtFinite(a)

(***************************************************************************)
(* Samples: (t, x, y); p[1:] of the source is Coords(p).                   *)
(***************************************************************************)
T(p) == p[1]
Coords(p) == <<p[2], p[3]>>

\* Python's seq[k:] for a 0-based k, negative k counted from the end.
PyFrom(s, k) ==
    LET n == Len(s)
        lo == IF k >= 0 THEN k ELSE (IF n + k < 0 THEN 0 ELSE n + k)
    IN  IF lo >= n THEN <<>> ELSE SubSeq(s, lo + 1, n)

\* Python's seq[k] for a 0-based k, negative k counted from the end.
PyAt(s, k) == IF k >= 0 THEN s[k + 1] ELSE s[Len(s) + k + 1]

(***************************************************************************)
(* class Interpolation                                                     *)
(***************************************************************************)
\* line 18, for s the value of 1 - r:
\* (s * x1[0] + r * x2[0], s * x1[1] + r * x2[1])
LinearWith(x1, x2, r, s) ==
    <<FAdd(FMul(s, x1[1]), FMul(r, x2[1])),
      FAdd(FMul(s, x1[2]), FMul(r, x2[2]))>>

\* line 18: (1 - r) * x1[0] + r * x2[0], (1 - r) * x1[1] + r * x2[1]
Linear(x1, x2, r) == LinearWith(x1, x2, r, FSub(FOne, r))

Before(x1, x2, r) == x2

ApplyInterpolation(f, x1, x2, r) ==
    IF f = "linear" THEN Linear(x1, x2, r) ELSE Before(x1, x2, r)

(***************************************************************************)
(* Replay.interpolate, in the pieces the state machine steps through.      *)
(***************************************************************************)
OutlierLimit == 600

\* line 132: the first timestamp of data2 is before the first of data1.
MustFlip(d1, d2) == T(d1[1]) > T(d2[1])

\* line 137: the 0-based indices the generator of next(...) yields; next()
\* raises StopIteration when there is none.
TrimCandidates(d1, d2) == {i \in 0..(Len(d1) - 1) : T(d1[i + 1]) > T(d2[1])}

\* line 141
Trimmed(d1, d2) ==
    LET i == Min(TrimCandidates(d1, d2))
    IN  IF Len(d1) < Len(d2) THEN PyFrom(d1, i) ELSE PyFrom(d1, i - 1)

\* line 143
MustFlipByLength(d1, d2) == Len(d1) > Len(d2)

\* lines 156-157: j (0-based) after the while loop.
RECURSIVE Advance(_, _, _)
Advance(d2, j, t) ==
    IF j < Len(d2) - 1 /\ T(d2[j + 1]) < t THEN Advance(d2, j + 1, t) ELSE j

\* line 183
IsOutlierMissingY(xi) == FLt(FFromInt(OutlierLimit), FAbs(xi[1]))
IsOutlier(xi) ==
    \/ FLt(FFromInt(OutlierLimit), FAbs(xi[1]))
    \/ FLt(FFromInt(OutlierLimit), FAbs(xi[2]))

NoCall == [applied |-> FALSE]

\* lines 180-189, for x_inter the value of the interpolation
SweepValue(between, before, after, r, x_inter, j1, clean1, inter0) ==
    [j |-> j1, clean |-> clean1,
     inter |-> Append(inter0,
                      IF IsOutlier(x_inter) THEN between
                      ELSE <<T(between), x_inter[1], x_inter[2]>>),
     path |-> IF IsOutlier(x_inter) THEN "outlier" ELSE "interp",
     call |-> [applied |-> TRUE, t |-> T(between),
               before |-> before, after |-> after,
               r |-> r, x_inter |-> x_inter]]

\* lines 180-189, for r the value of dt1 / dt2
SweepRatio(f, between, before, after, r, j1, clean1, inter0) ==
    SweepValue(between, before, after, r,
               ApplyInterpolation(f, Coords(before), Coords(after), r),
               j1, clean1, inter0)

\* lines 151-189: one iteration of the for loop, for the sample between of
\* data1, with the cursor at j.  path names the statement that ended the
\* iteration; call records the arguments and the value of the application of
\* the interpolation function in line 180 (NoCall when it is not reached).
SweepIteration(f, d2, between, j0, clean0, inter0) ==
    LET clean1 == Append(clean0, between)
        j1 == Advance(d2, j0, T(between))
    IN  IF j1 = Len(d2) - 1
        THEN [j |-> j1, clean |-> clean1, inter |-> inter0,
              path |-> "break", call |-> NoCall]
        ELSE
          LET before == d2[j1 + 1]
              after == d2[j1 + 2]
              dt1 == T(between) - T(before)
              dt2 == T(after) - T(before)
          IN  IF dt2 = 0
              THEN [j |-> j1, clean |-> clean1,
                    inter |-> Append(inter0,
                                     <<T(between), before[2], before[3]>>),
                    path |-> "zero", call |-> NoCall]
              ELSE SweepRatio(f, between, before, after,
                              FDiv(FFromInt(dt1), FFromInt(dt2)),
                              j1, clean1, inter0)

\* lines 148-189: the whole sweep from sample k (1-based) of data1 on.
RECURSIVE Sweep(_, _, _, _, _, _, _)

\* the sweep after the iteration for sample k, which left s
SweepAfter(f, d1, d2, k, s) ==
    IF s.path = "break" THEN <<s.clean, s.inter>>
    ELSE Sweep(f, d1, d2, k + 1, s.j, s.clean, s.inter)

Sweep(f, d1, d2, k, j, clean, inter) ==
    IF k > Len(d1) THEN <<clean, inter>>
    ELSE SweepAfter(f, d1, d2, k,
                    SweepIteration(f, d2, d1[k], j, clean, inter))

\* lines 191-194, for out the pair <<clean, inter>>
Returned(out, unflip, flipped) ==
    IF unflip /\ flipped THEN <<out[2], out[1]>> ELSE out

Raised == <<"raised">>

\* Replay.interpolate as a function of its arguments: the pair it returns,
\* or Raised when next() in line 137 raises StopIteration.
Interpolate(dA, dB, f, unflip) ==
    LET f1 == MustFlip(dA, dB)
        a1 == IF f1 THEN dB ELSE dA
        b1 == IF f1 THEN dA ELSE dB
    IN  IF TrimCandidates(a1, b1) = {} THEN Raised
        ELSE
          LET a2 == Trimmed(a1, b1)
              f2 == MustFlipByLength(a2, b1)
              a3 == IF f2 THEN b1 ELSE a2
              b3 == IF f2 THEN a2 ELSE b1
          IN  Returned(Sweep(f, a3, b3, 1, 0, <<>>, <<>>), unflip, f1 # f2)


(***************************************************************************)
(* The state.  Each operation has its own variables and its own program    *)
(* counter, "idle" in the specifications that do not run it.               *)
(***************************************************************************)
VARIABLES
    \* Replay.interpolate: its arguments, its locals, what it returns
    arg1, arg2, interpolation, unflip,
    data1, data2, flipped, k, j, clean, inter, path, call, ret, ipc,
    \* Comparer.compare: the fields of the Comparer, the loop, the output
    replays1, replays2, threshold, mode, iterator, pos,
    compared, printed, drawn, cpc,
    \* Replay.skip_breaks
    b_timestamped, break_threshold, total_break_time, skipped, t_prev, bk, bpc,
    \* Replay.resample
    r_timestamped, frequency, ri, rt, t_max, resampled, rpc

ivars == <<arg1, arg2, interpolation, unflip,
           data1, data2, flipped, k, j, clean, inter, path, call, ret, ipc>>
cvars == <<replays1, replays2, threshold, mode, iterator, pos,
           compared, printed, drawn, cpc>>
bvars == <<b_timestamped, break_threshold, total_break_time, skipped,
           t_prev, bk, bpc>>
rvars == <<r_timestamped, frequency, ri, rt, t_max, resampled, rpc>>
vars == <<ivars, cvars, bvars, rvars>>

IdleI ==
    /\ arg1 = <<>> /\ arg2 = <<>> /\ interpolation = "linear"
    /\ unflip = FALSE /\ data1 = <<>> /\ data2 = <<>> /\ flipped = FALSE
    /\ k = 0 /\ j = 0 /\ clean = <<>> /\ inter = <<>> /\ path = "none"
    /\ call = NoCall /\ ret = <<>> /\ ipc = "idle"

IdleC ==
    /\ replays1 = <<>> /\ replays2 = <<>> /\ threshold = 0 /\ mode = "none"
    /\ iterator = <<>> /\ pos = 0 /\ compared = <<>> /\ printed = <<>>
    /\ drawn = <<>> /\ cpc = "idle"

IdleB ==
    /\ b_timestamped = <<>> /\ break_threshold = 0 /\ total_break_time = 0
    /\ skipped = <<>> /\ t_prev = 0 /\ bk = 0 /\ bpc = "idle"

IdleR ==
    /\ r_timestamped = <<>> /\ frequency = 0 /\ ri = 0 /\ rt = FZero
    /\ t_max = 0 /\ resampled = <<>> /\ rpc = "idle"

(***************************************************************************)
(* Inputs of Replay.interpolate: time-sorted sequences of 2..MaxLen        *)
(* samples with timestamps in 0..MaxT (repeated timestamps included), the  *)
(* coordinates of sample i given by one of three profiles:                 *)
(*   steep  a fast move inside the playfield (y from 600 down by 300),     *)
(*   far    samples outside the playfield (x below -700),                  *)
(*   huge   samples at x = 2^1023, where a product of line 18 overflows.   *)
(* Replay.resample is given the profile slow, a slow drift inside the      *)
(* playfield.                                                              *)
(***************************************************************************)
Profiles == {"steep", "far", "huge"}

\* the float 2^1023
Huge == <<1, <<1>>, MaxExponent - 1>>

ProfileCoords(p, i) ==
    IF p = "slow" THEN <<FFromInt(10 * i), FFromInt(0 - 10 * i)>>
    ELSE IF p = "steep" THEN <<FFromInt(5 * i), FFromInt(900 - 300 * i)>>
    ELSE IF p = "far" THEN <<FFromInt(0 - 700 - i), FFromInt(i)>>
    ELSE <<Huge, FFromInt(i)>>

TimeSeqs(n, maxT) ==
    {ts \in [1..n -> 0..maxT] : \A i \in 1..(n - 1) : ts[i] <= ts[i + 1]}

Trace(ts, p) ==
    [i \in 1..Len(ts) |->
        <<ts[i], ProfileCoords(p, i)[1], ProfileCoords(p, i)[2]>>]

Traces ==
    {Trace(ts, p) : ts \in UNION {TimeSeqs(n, MaxT) : n \in 2..MaxLen},
                    p \in Profiles}

(***************************************************************************)
(* Replay.interpolate as a state machine.                                  *)
(***************************************************************************)
InitInterpolate ==
    /\ arg1 \in Traces
    /\ arg2 \in Traces
    /\ interpolation \in {"linear", "before"}
    /\ unflip \in BOOLEAN
    /\ data1 = arg1 /\ data2 = arg2
    /\ flipped = FALSE
    /\ k = 0 /\ j = 0 /\ clean = <<>> /\ inter = <<>>
    /\ path = "none" /\ call = NoCall /\ ret = <<>>
    /\ ipc = "orient"
    /\ IdleC /\ IdleB /\ IdleR

\* lines 128-134
Orient ==
    /\ ipc = "orient"
    /\ IF MustFlip(data1, data2)
       THEN /\ flipped' = ~flipped
            /\ data1' = data2
            /\ data2' = data1
       ELSE UNCHANGED <<flipped, data1, data2>>
    /\ ipc' = "trim"
    /\ UNCHANGED <<arg1, arg2, interpolation, unflip, k, j, clean, inter,
                   path, call, ret>>
    /\ UNCHANGED <<cvars, bvars, rvars>>

\* lines 136-141; StopIteration leaves interpolate when no timestamp of
\* data1 is after the first of data2.
HeadTrim ==
    /\ ipc = "trim"
    /\ IF TrimCandidates(data1, data2) = {}
       THEN /\ ipc' = "raised"
            /\ UNCHANGED data1
       ELSE /\ data1' = Trimmed(data1, data2)
            /\ ipc' = "reorient"
    /\ UNCHANGED <<arg1, arg2, interpolation, unflip, data2, flipped, k, j,
                   clean, inter, path, call, ret>>
    /\ UNCHANGED <<cvars, bvars, rvars>>

\* lines 143-150
ReorientByLength ==
    /\ ipc = "reorient"
    /\ IF MustFlipByLength(data1, data2)
       THEN /\ flipped' = ~flipped
            /\ data1' = data2
            /\ data2' = data1
       ELSE UNCHANGED <<flipped, data1, data2>>
    /\ j' = 0 /\ inter' = <<>> /\ clean' = <<>>
    /\ k' = 1
    /\ ipc' = "sweep"
    /\ UNCHANGED <<arg1, arg2, interpolation, unflip, path, call, ret>>
    /\ UNCHANGED <<cvars, bvars, rvars>>

\* lines 151-189: one iteration of the for loop
SweepStepTo(s) ==
    /\ j' = s.j
    /\ clean' = s.clean
    /\ inter' = s.inter
    /\ path' = s.path
    /\ call' = s.call
    /\ ipc' = IF s.path = "break" THEN "unflip" ELSE "sweep"

SweepStep ==
    /\ ipc = "sweep"
    /\ k <= Len(data1)
    /\ SweepStepTo(SweepIteration(interpolation, data2, data1[k], j, clean,
                                  inter))
    /\ k' = k + 1
    /\ UNCHANGED <<arg1, arg2, interpolation, unflip, data1, data2, flipped,
                   ret>>
    /\ UNCHANGED <<cvars, bvars, rvars>>

\* line 151: data1 is exhausted
SweepEnd ==
    /\ ipc = "sweep"
    /\ k > Len(data1)
    /\ ipc' = "unflip"
    /\ UNCHANGED <<arg1, arg2, interpolation, unflip, data1, data2, flipped,
                   k, j, clean, inter, path, call, ret>>
    /\ UNCHANGED <<cvars, bvars, rvars>>

\* lines 191-194
Return ==
    /\ ipc = "unflip"
    /\ ret' = Returned(<<clean, inter>>, unflip, flipped)
    /\ ipc' = "done"
    /\ UNCHANGED <<arg1, arg2, interpolation, unflip, data1, data2, flipped,
                   k, j, clean, inter, path, call>>
    /\ UNCHANGED <<cvars, bvars, rvars>>

NextInterpolate ==
    \/ Orient
    \/ HeadTrim
    \/ ReorientByLength
    \/ SweepStep
    \/ SweepEnd
    \/ Return

SpecInterpolate == InitInterpolate /\ [][NextInterpolate]_vars

(***************************************************************************)
(* Replay.as_list_with_timestamps.  play_data is a sequence of events      *)
(* <<time_since_previous_action, x, y>>.                                   *)
(***************************************************************************)
\* lines 266-267: timestamps.cumsum()
RECURSIVE CumSum(_, _)
CumSum(pd, i) == IF i = 0 THEN 0 ELSE CumSum(pd, i - 1) + pd[i][1]

\* line 273: list.sort is stable; p goes after the samples that are not later.
InsertByTime(s, p) ==
    LET n == Cardinality({i \in 1..Len(s) : T(s[i]) <= T(p)})
    IN  SubSeq(s, 1, n) \o <<p>> \o SubSeq(s, n + 1, Len(s))

RECURSIVE SortByTime(_)
SortByTime(s) ==
    IF s = <<>> THEN <<>>
    ELSE InsertByTime(SortByTime(SubSeq(s, 1, Len(s) - 1)), s[Len(s)])

\* lines 266-274: the zip of line 270, sorted
AsListWithTimestamps(pd) ==
    SortByTime([i \in 1..Len(pd) |->
                   <<CumSum(pd, i), FFromInt(pd[i][2]), FFromInt(pd[i][3])>>])

(***************************************************************************)
(* Comparer._compute_data_similarity and Comparer._compare_two_replays,    *)
(* in the float arithmetic of numpy.  np.seterr(all='raise') (replay.py    *)
(* line 277) makes numpy raise FloatingPointError on overflow, on an       *)
(* invalid operation and on underflow.                                     *)
(***************************************************************************)
\* line 144: d[1:]
StripTime(d) == [i \in 1..Len(d) |-> Coords(d[i])]

\* lines 164-165: np.array of the list, every element computed
AsArray(s) == SubSeq(s, 1, Len(s))

\* overflow: the result r of an operation on the finite a and b is an
\* infinity; invalid: r is nan and neither a nor b is
Faults(r, a, b) ==
    \/ IsInf(r) /\ ~IsSpecial(a) /\ ~IsSpecial(b)
    \/ r = FNaN /\ a # FNaN /\ b # FNaN

\* underflow: the result r is not the exact s * M * 2^E, M > 0, which is
\* tiny (v, below 2^-1022) when rounded to 53 bits without a lower bound on
\* the exponent
Underflows(s, M, E, r) ==
    /\ r # FCanon(s, M, E)
    /\ LET v == FRoundCut(s, M, E, Max({0, BBitLen(M) - MantissaBits}))
       IN  BBitLen(v[2]) + v[3] <= MinExponent + MantissaBits - 1

\* a * a = r underflows
SquareUnderflows(a, r) ==
    /\ ~IsSpecial(a)
    /\ a[1] # 0
    /\ Underflows(1, BMul(a[2], a[2]), 2 * a[3], r)

\* a / b = r underflows, for a finite b that is not 0.0 and the quotient and
\* remainder dm of FDivShifted
DivUnderflows(a, b, r) ==
    /\ ~IsSpecial(a)
    /\ a[1] # 0
    /\ LET sh == Max({0, 56 + BBitLen(b[2]) - BBitLen(a[2])})
           dm == BDivMod(BShl(a[2], sh), b[2])
       IN  Underflows(a[1] * b[1], Sticky(dm.q, dm.r # <<>>),
                      a[3] - b[3] - sh - 1, r)

\* acc + s[lo] + ... + s[hi], added from left to right
RECURSIVE FSumRange(_, _, _, _)
FSumRange(s, lo, hi, acc) ==
    IF lo > hi THEN acc ELSE FSumRange(s, lo + 1, hi, FAdd(acc, s[lo]))

\* the eight running sums of numpy's pairwise summation over the n elements
\* after s[lo]: the elements lo + i + 1 .. lo + i + 8 are added next
RECURSIVE Unrolled(_, _, _, _, _)
Unrolled(s, lo, n, i, r) ==
    IF i >= n - (n % 8) THEN r
    ELSE Unrolled(s, lo, n, i + 8,
                  AsArray([c \in 1..8 |-> FAdd(r[c], s[lo + i + c])]))

\* (r[1] + r[2]) + (r[3] + r[4]) and so on, down to one sum
RECURSIVE AddInPairs(_)
AddInPairs(r) ==
    IF Len(r) = 1 THEN r[1]
    ELSE AddInPairs(AsArray([c \in 1..(Len(r) \div 2) |->
                                FAdd(r[2 * c - 1], r[2 * c])]))

\* numpy's pairwise summation of the n elements after s[lo]: up to 7
\* elements from left to right, up to 128 in eight running sums, more in two
\* halves
RECURSIVE PairwiseSum(_, _, _)
PairwiseSum(s, lo, n) ==
    IF n <= 128
    THEN FSumRange(s,
                   IF n < 8 THEN lo + 1 ELSE lo + n - (n % 8) + 1,
                   lo + n,
                   IF n < 8 THEN FZero
                   ELSE AddInPairs(Unrolled(s, lo, n, 8,
                                            SubSeq(s, lo + 1, lo + 8))))
    ELSE FAdd(PairwiseSum(s, lo, (n \div 2) - ((n \div 2) % 8)),
              PairwiseSum(s, lo + (n \div 2) - ((n \div 2) % 8),
                          n - ((n \div 2) - ((n \div 2) % 8))))

\* numpy's sum of a one-dimensional array
FSum(s) == PairwiseSum(s, 0, Len(s))

\* the sum total of the elements of s overflows
SumFaults(s, total) ==
    IsInf(total) /\ \A i \in 1..Len(s) : ~IsSpecial(s[i])

\* line 182: distance.std() from the variance, for total the sum of the
\* squared deviations sq
MomentsOfVariance(mu, sq, total, var) ==
    IF SumFaults(sq, total) \/ DivUnderflows(total, FFromInt(Len(sq)), var)
    THEN Raised
    ELSE <<mu, FSqrt(var)>>

MomentsOfSquares(mu, sq, total) ==
    MomentsOfVariance(mu, sq, total, FDiv(total, FFromInt(Len(sq))))

\* line 182: distance.std(), for dev the deviations from the mean mu and sq
\* their squares
MomentsOfDeviations(distance, mu, dev, sq) ==
    IF \E i \in 1..Len(dev) :
          \/ Faults(dev[i], distance[i], mu)
          \/ Faults(sq[i], dev[i], dev[i])
          \/ SquareUnderflows(dev[i], sq[i])
    THEN Raised
    ELSE MomentsOfSquares(mu, sq, FSum(sq))

MomentsAround(distance, mu, dev) ==
    MomentsOfDeviations(distance, mu, dev,
                        AsArray([i \in 1..Len(dev) |-> FMul(dev[i], dev[i])]))

\* line 182: distance.mean() is mu, for total the sum of the distances
MomentsOfMean(distance, total, mu) ==
    IF SumFaults(distance, total)
       \/ DivUnderflows(total, FFromInt(Len(distance)), mu)
    THEN Raised
    ELSE MomentsAround(distance, mu,
                       AsArray([i \in 1..Len(distance) |->
                                   FSub(distance[i], mu)]))

MomentsOfSum(distance, total) ==
    MomentsOfMean(distance, total, FDiv(total, FFromInt(Len(distance))))

\* line 182: (distance.mean(), distance.std()), or Raised
Moments(distance) == MomentsOfSum(distance, FSum(distance))

\* line 180: (...).sum(axis=1) ** 0.5, for sq the squares of the rows of
\* the difference and sums their row sums
DistanceOfSums(sq, sums) ==
    IF \E i \in 1..Len(sums) : Faults(sums[i], sq[i][1], sq[i][2])
    THEN Raised
    ELSE Moments(AsArray([i \in 1..Len(sums) |-> FSqrt(sums[i])]))

\* line 180: distance ** 2, for diff the difference of line 173
DistanceOfSquares(diff, sq) ==
    IF \E i \in 1..Len(diff), c \in 1..2 :
          \/ Faults(sq[i][c], diff[i][c], diff[i][c])
          \/ SquareUnderflows(diff[i][c], sq[i][c])
    THEN Raised
    ELSE DistanceOfSums(sq, AsArray([i \in 1..Len(sq) |->
                                        FAdd(sq[i][1], sq[i][2])]))

\* lines 173-182, for diff the array longer[:shortest] - shorter
SimilarityOfDifference(longer, shorter, diff) ==
    IF \E i \in 1..Len(diff), c \in 1..2 :
          Faults(diff[i][c], longer[i][c], shorter[i][c])
    THEN Raised
    ELSE DistanceOfSquares(diff,
                           AsArray([i \in 1..Len(diff) |->
                                       <<FMul(diff[i][1], diff[i][1]),
                                         FMul(diff[i][2], diff[i][2])>>]))

\* lines 173-182, for longer the longer array (data1)
SimilarityOfArrays(longer, shorter) ==
    SimilarityOfDifference(longer, shorter,
                           AsArray([i \in 1..Len(shorter) |->
                                       <<FSub(longer[i][1], shorter[i][1]),
                                         FSub(longer[i][2], shorter[i][2])>>]))

\* lines 164-184.  With an empty shorter list numpy cannot subtract the
\* arrays ((n, 2) against (0,)) and raises.
ComputeDataSimilarity(l1, l2) ==
    IF Len(l1) = 0 \/ Len(l2) = 0 THEN Raised
    ELSE IF Len(l2) > Len(l1) THEN SimilarityOfArrays(l2, l1)
    ELSE SimilarityOfArrays(l1, l2)

\* lines 146-149, for the pair both that interpolate returned
SimilarityOf(both) ==
    IF both = Raised THEN Raised
    ELSE ComputeDataSimilarity(StripTime(both[1]), StripTime(both[2]))

\* lines 137-149.  The timestamps are numpy integers here, so line 18 runs in
\* numpy's arithmetic, which rounds as Python's does; it raises on overflow,
\* which the integer coordinates of play_data cannot reach.
CompareTwoReplays(rp1, rp2) ==
    SimilarityOf(Interpolate(AsListWithTimestamps(rp1.play_data),
                             AsListWithTimestamps(rp2.play_data),
                             "linear", FALSE))

(***************************************************************************)
(* Comparer.compare                                                        *)
(***************************************************************************)
\* config.WHITELIST
WHITELIST == {"w1", "w2"}

\* line 77
CheckNamesEitherTrusted(player1, player2) ==
    (player1 \in WHITELIST \/ player2 \in WHITELIST) \/ (player1 = player2)
CheckNames(player1, player2) ==
    (player1 \in WHITELIST /\ player2 \in WHITELIST) \/ (player1 = player2)

\* line 55: itertools.product over lists of n and m replays, as index pairs
Product(n, m) ==
    [p \in 1..(n * m) |-> <<((p - 1) \div m) + 1, ((p - 1) % m) + 1>>]

\* line 58: itertools.combinations(replays1, 2), as index pairs
RECURSIVE CombinationsFrom(_, _, _)
CombinationsFrom(a, b, n) ==
    IF a >= n THEN <<>>
    ELSE IF b > n THEN CombinationsFrom(a + 1, a + 2, n)
    ELSE <<<<a, b>>>> \o CombinationsFrom(a, b + 1, n)

\* line 119
AboveThreshold(mean, thr) == FLt(FFromInt(thr), mean)

(***************************************************************************)
(* Inputs of Comparer.compare: lists drawn from a pool of replays, at most *)
(* MaxReplays replays in the two lists together.  The plays:               *)
(*   PStill  t = 0, 1, 2 at x = 0                                          *)
(*   PShift  t = 0, 1, 2 at x = 3 (distance 3 from PStill everywhere)      *)
(*   PDup    t = 0, 0, 1 with a repeated timestamp, x = 0, 4, 4            *)
(*   PBack   a negative delta: events at t = 1, 0, 2                       *)
(*   PLate   t = 5, 6: starts after the others end                         *)
(***************************************************************************)
MaxReplays == 3

PStill == <<<<0, 0, 0>>, <<1, 0, 0>>, <<1, 0, 0>>>>
PShift == <<<<0, 3, 0>>, <<1, 3, 0>>, <<1, 3, 0>>>>
PDup == <<<<0, 0, 0>>, <<0, 4, 0>>, <<1, 4, 0>>>>
PBack == <<<<1, 1, 0>>, <<-1, 0, 0>>, <<2, 2, 0>>>>
PLate == <<<<5, 0, 0>>, <<1, 0, 0>>>>

Replay(name, pd) == [player_name |-> name, play_data |-> pd]

ReplayPool ==
    {Replay("a", PStill), Replay("b", PStill), Replay("a", PShift),
     Replay("w1", PDup), Replay("w2", PDup), Replay("b", PDup),
     Replay("b", PBack), Replay("w1", PLate)}

ReplayLists(n) == UNION {[1..m -> ReplayPool] : m \in 1..n}

InitCompare ==
    /\ mode \in {"double", "single", "triple"}
    /\ threshold \in {2, 3}
    /\ replays1 \in ReplayLists(MaxReplays)
    /\ IF mode = "single"
       THEN replays2 = <<>> /\ Len(replays1) >= 2
       ELSE /\ replays2 \in ReplayLists(MaxReplays)
            /\ Len(replays1) + Len(replays2) <= MaxReplays
    /\ iterator = <<>> /\ pos = 0
    /\ compared = <<>> /\ printed = <<>> /\ drawn = <<>>
    /\ cpc = "start"
    /\ IdleI /\ IdleB /\ IdleR

\* lines 53-60
Begin ==
    /\ cpc = "start"
    /\ IF mode = "double"
       THEN iterator' = Product(Len(replays1), Len(replays2)) /\ cpc' = "loop"
       ELSE IF mode = "single"
       THEN iterator' = CombinationsFrom(1, 2, Len(replays1)) /\ cpc' = "loop"
       ELSE UNCHANGED iterator /\ cpc' = "raised"
    /\ UNCHANGED <<replays1, replays2, threshold, mode, pos, compared,
                   printed, drawn>>
    /\ UNCHANGED <<ivars, bvars, rvars>>

First(pr) == replays1[pr[1]]
Second(pr) == IF mode = "double" THEN replays2[pr[2]] ELSE replays1[pr[2]]

\* lines 62-64: the pair is skipped
SkipPair ==
    /\ cpc = "loop"
    /\ pos < Len(iterator)
    /\ LET pr == iterator[pos + 1]
       IN  CheckNames(First(pr).player_name, Second(pr).player_name)
    /\ pos' = pos + 1
    /\ UNCHANGED <<replays1, replays2, threshold, mode, iterator, compared,
                   printed, drawn, cpc>>
    /\ UNCHANGED <<ivars, bvars, rvars>>

\* lines 65-66 with _print_result (lines 117-124), for the result of the
\* comparison of the pair pr.  An exception of the comparison, or of
\* answer[0] on an empty answer, leaves compare.
Score(pr, result) ==
    /\ compared' = Append(compared, <<pr, result>>)
    /\ IF result = Raised
       THEN cpc' = "raised" /\ UNCHANGED <<printed, drawn>>
       ELSE IF AboveThreshold(result[1], threshold)
       THEN UNCHANGED <<printed, drawn, cpc>>
       ELSE /\ printed' = Append(printed, <<pr, result>>)
            /\ \E answer \in {"y", "n", ""} :
                 IF answer = ""
                 THEN cpc' = "raised" /\ UNCHANGED drawn
                 ELSE /\ drawn' = IF answer = "y"
                                  THEN Append(drawn, pr) ELSE drawn
                      /\ UNCHANGED cpc

\* lines 62-66: the pair is compared
ScorePair ==
    /\ cpc = "loop"
    /\ pos < Len(iterator)
    /\ LET pr == iterator[pos + 1]
           replay1 == First(pr)
           replay2 == Second(pr)
       IN  /\ ~CheckNames(replay1.player_name, replay2.player_name)
           /\ Score(pr, CompareTwoReplays(replay1, replay2))
    /\ pos' = pos + 1
    /\ UNCHANGED <<replays1, replays2, threshold, mode, iterator>>
    /\ UNCHANGED <<ivars, bvars, rvars>>

\* line 62: the iterator is exhausted
Finish ==
    /\ cpc = "loop"
    /\ pos = Len(iterator)
    /\ cpc' = "done"
    /\ UNCHANGED <<replays1, replays2, threshold, mode, iterator, pos,
                   compared, printed, drawn>>
    /\ UNCHANGED <<ivars, bvars, rvars>>

NextCompare ==
    \/ Begin
    \/ SkipPair
    \/ ScorePair
    \/ Finish

SpecCompare == InitCompare /\ [][NextCompare]_vars

(***************************************************************************)
(* Replay.skip_breaks                                                      *)
(***************************************************************************)
DefaultBreakThreshold == 1000
MaxBreakLen == 4

\* line 249
IsBreakAtThreshold(dt, thr) == dt >= thr
IsBreak(dt, thr) == dt > thr

RECURSIVE TimesFromGaps(_, _, _)
TimesFromGaps(t0, gs, i) ==
    IF i = 1 THEN t0 ELSE TimesFromGaps(t0, gs, i - 1) + gs[i - 1]

\* the inputs: the gaps between consecutive samples are none, short, exactly
\* the threshold, just over it, well over it
BreakInputs(thr) ==
    {[i \in 1..(Len(gs) + 1) |->
          <<TimesFromGaps(t0, gs, i), FFromInt(i), FFromInt(0 - i)>>] :
        gs \in UNION {[1..n -> {0, 1, thr, thr + 1, thr + 5}] :
                         n \in 0..(MaxBreakLen - 1)},
        t0 \in {0, 7}}

InitBreaks ==
    /\ break_threshold \in {DefaultBreakThreshold, 2}
    /\ b_timestamped \in BreakInputs(break_threshold)
    /\ total_break_time = 0 /\ skipped = <<>> /\ t_prev = 0 /\ bk = 0
    /\ bpc = "start"
    /\ IdleI /\ IdleC /\ IdleR

\* lines 242-245
BreaksStart ==
    /\ bpc = "start"
    /\ total_break_time' = 0
    /\ skipped' = <<>>
    /\ t_prev' = T(b_timestamped[1])
    /\ bk' = 1
    /\ bpc' = "loop"
    /\ UNCHANGED <<b_timestamped, break_threshold>>
    /\ UNCHANGED <<ivars, cvars, rvars>>

\* lines 246-253: one iteration of the for loop
BreaksStep ==
    /\ bpc = "loop"
    /\ bk <= Len(b_timestamped)
    /\ LET event == b_timestamped[bk]
           dt == T(event) - t_prev
           total == IF IsBreak(dt, break_threshold)
                    THEN total_break_time + dt ELSE total_break_time
       IN  /\ total_break_time' = total
           /\ skipped' = Append(skipped, <<T(event) - total, event[2], event[3]>>)
           /\ t_prev' = T(event)
    /\ bk' = bk + 1
    /\ UNCHANGED <<b_timestamped, break_threshold, bpc>>
    /\ UNCHANGED <<ivars, cvars, rvars>>

\* line 255
BreaksReturn ==
    /\ bpc = "loop"
    /\ bk > Len(b_timestamped)
    /\ bpc' = "done"
    /\ UNCHANGED <<b_timestamped, break_threshold, total_break_time, skipped,
                   t_prev, bk>>
    /\ UNCHANGED <<ivars, cvars, rvars>>

NextBreaks ==
    \/ BreaksStart
    \/ BreaksStep
    \/ BreaksReturn

SpecBreaks == InitBreaks /\ [][NextBreaks]_vars

(***************************************************************************)
(* Replay.resample.  The target time t is a float from the first step on;  *)
(* the state keeps it as a float throughout (t starts as the integer       *)
(* timestamped[0][0], which equals its float).                             *)
(***************************************************************************)
MaxResampleT == 5

\* line 225: 1000 / frequency
StepOf(f) == FDiv(FFromInt(1000), FFromInt(f))

\* line 215
ResampleContinuesAtEnd(t, tmax) == FLe(t, FFromInt(tmax))
ResampleContinues(t, tmax) == FLt(t, FFromInt(tmax))

\* lines 216-217: i (0-based) after the inner while loop
RECURSIVE AdvanceTo(_, _, _)
AdvanceTo(ts, i, t) ==
    IF FLt(FFromInt(T(PyAt(ts, i))), t) THEN AdvanceTo(ts, i + 1, t) ELSE i

InitResample ==
    /\ r_timestamped \in
           {Trace(ts, "slow") :
               ts \in UNION {TimeSeqs(n, MaxResampleT) : n \in 2..MaxLen}}
    /\ frequency \in {250, 500, 1000}
    /\ ri = 0 /\ rt = FZero /\ t_max = 0 /\ resampled = <<>>
    /\ rpc = "start"
    /\ IdleI /\ IdleC /\ IdleB

\* lines 209-213
ResampleStart ==
    /\ rpc = "start"
    /\ ri' = 0
    /\ rt' = FFromInt(T(PyAt(r_timestamped, 0)))
    /\ t_max' = T(PyAt(r_timestamped, -1))
    /\ resampled' = <<>>
    /\ rpc' = "loop"
    /\ UNCHANGED <<r_timestamped, frequency>>
    /\ UNCHANGED <<ivars, cvars, bvars>>

\* line 224, for xy the value of the interpolation
ResampleAppend(xy) ==
    resampled' = Append(resampled, <<rt, xy[1], xy[2]>>)

\* lines 215-225: one iteration of the outer while loop; a zero dt2 raises
\* ZeroDivisionError
ResampleStep ==
    /\ rpc = "loop"
    /\ ResampleContinues(rt, t_max)
    /\ LET i1 == AdvanceTo(r_timestamped, ri, rt)
           lo == PyAt(r_timestamped, i1 - 1)
           hi == PyAt(r_timestamped, i1)
           dt1 == FSub(rt, FFromInt(T(lo)))
           dt2 == T(hi) - T(lo)
       IN  /\ ri' = i1
           /\ IF dt2 = 0
              THEN rpc' = "raised" /\ UNCHANGED <<resampled, rt>>
              ELSE /\ ResampleAppend(Linear(Coords(lo), Coords(hi),
                                            FDiv(dt1, FFromInt(dt2))))
                   /\ rt' = FAdd(rt, StepOf(frequency))
                   /\ UNCHANGED rpc
    /\ UNCHANGED <<r_timestamped, frequency, t_max>>
    /\ UNCHANGED <<ivars, cvars, bvars>>

\* line 227
ResampleReturn ==
    /\ rpc = "loop"
    /\ ~ResampleContinues(rt, t_max)
    /\ rpc' = "done"
    /\ UNCHANGED <<r_timestamped, frequency, ri, rt, t_max, resampled>>
    /\ UNCHANGED <<ivars, cvars, bvars>>

NextResample ==
    \/ ResampleStart
    \/ ResampleStep
    \/ ResampleReturn

SpecResample == InitResample /\ [][NextResample]_vars

(***************************************************************************)
(* The whole program: any one of the operations.                           *)
(***************************************************************************)
Init == InitInterpolate \/ InitCompare \/ InitBreaks \/ InitResample

Next == NextInterpolate \/ NextCompare \/ NextBreaks \/ NextResample

Spec == Init /\ [][Next]_vars

(***************************************************************************)
(* Properties of Replay.interpolate, checked under SpecInterpolate.        *)
(***************************************************************************)
StrictlyIncreasing(d) == \A i \in 1..(Len(d) - 1) : T(d[i]) < T(d[i + 1])

\* the arguments the aligner accepts: at least 2 samples each, timestamps
\* strictly increasing
Accepted == /\ Len(arg1) >= 2 /\ Len(arg2) >= 2
            /\ StrictlyIncreasing(arg1) /\ StrictlyIncreasing(arg2)

\* |v| <= 600; false of nan, as every comparison with nan is
Within(v) == FLe(FAbs(v), FFromInt(OutlierLimit))

InBound(xy) == Within(xy[1]) /\ Within(xy[2])

\* each coordinate is within 600 or is nan
InBoundOrNaN(xy) ==
    /\ xy[1] = FNaN \/ Within(xy[1])
    /\ xy[2] = FNaN \/ Within(xy[2])

Samples(d) == {d[i] : i \in 1..Len(d)}

MinLen(a, b) == IF Len(a) < Len(b) THEN Len(a) ELSE Len(b)

\* the state machine returns what the function Interpolate returns
StepsAgreeWithFunction ==
    /\ ipc = "done" => ret = Interpolate(arg1, arg2, interpolation, unflip)
    /\ ipc = "raised" =>
           Interpolate(arg1, arg2, interpolation, unflip) = Raised

\* C1: for accepted arguments the two returned lists have the same length,
\* and that length is at most min(len(A), len(B)), also when the sweep
\* stopped early at the source's last index.
C1_EqualLength ==
    (ipc = "done" /\ Accepted) =>
        /\ Len(ret[1]) = Len(ret[2])
        /\ Len(ret[1]) <= MinLen(arg1, arg2)

\* C3 as stated: every sample appended to the interpolated output has
\* |x| <= 600 and |y| <= 600, on all three append paths.
C3_OutlierBound == \A i \in 1..Len(inter) : InBound(Coords(inter[i]))

\* C3 as amended: a coordinate appended on the normal path is within 600 or
\* is nan, which the comparisons of the guard let pass; the zero-width path
\* appends coordinates of a source sample and the outlier-guard path the
\* reference sample itself, unclamped, so a coordinate of the interpolated
\* output that is a number exceeds 600 only where the coordinate of that
\* input sample does, and with all input coordinates within 600 so is every
\* coordinate of the output.
C3_BoundedUnlessInput ==
    /\ path = "interp" => InBoundOrNaN(Coords(inter[Len(inter)]))
    /\ path = "outlier" => inter[Len(inter)] = clean[Len(clean)]
    /\ path = "zero" =>
           \E q \in Samples(data2) : Coords(q) = Coords(inter[Len(inter)])
    /\ \A i \in 1..Len(inter) :
           \/ InBoundOrNaN(Coords(inter[i]))
           \/ \E q \in Samples(data1) \cup Samples(data2) :
                  Coords(q) = Coords(inter[i]) /\ ~InBound(Coords(q))
    /\ (\A q \in Samples(arg1) \cup Samples(arg2) : InBound(Coords(q))) =>
           \A i \in 1..Len(inter) : InBound(Coords(inter[i]))

\* C3 witness: on inputs that are all within 600 the ratio dt1 / dt2 was
\* rounded to 53 bits, the guard fired on the rounded value of the
\* interpolation and the reference sample was appended in its place.
C3_Witness ==
    /\ path = "outlier"
    /\ BBitLen(call.r[2]) = MantissaBits
    /\ ~InBound(call.x_inter)
    /\ \A q \in Samples(arg1) \cup Samples(arg2) : InBound(Coords(q))
    /\ InBound(Coords(inter[Len(inter)]))

\* a nan passed the guard and was appended on the normal path
NaNAppended ==
    /\ path = "interp"
    /\ call.x_inter[1] = FNaN
    /\ inter[Len(inter)][2] = FNaN

\* C4: with unflip set, interpolate(A, B) returns (rA, rB) exactly when
\* interpolate(B, A) returns (rB, rA).
C4_SwapSymmetric ==
    (ipc \in {"done", "raised"} /\ unflip /\ Accepted) =>
        LET other == Interpolate(arg2, arg1, interpolation, TRUE)
        IN  IF ipc = "raised" THEN other = Raised
            ELSE other # Raised /\ other = <<ret[2], ret[1]>>

\* C9: Interpolation.before returns the coordinates of the earlier bracket
\* point x1, whatever the ratio.
C9_BeforeReturnsEarlier ==
    (call.applied /\ interpolation = "before") =>
        call.x_inter = Coords(call.before)

\* C10: whenever the interpolation function is applied for a reference
\* sample at time t, before.t <= t <= after.t and the ratio is in [0, 1].
C10_RatioInUnitInterval ==
    call.applied =>
        /\ T(call.before) <= call.t
        /\ call.t <= T(call.after)
        /\ FLe(FZero, call.r)
        /\ FLe(call.r, FOne)

(***************************************************************************)
(* Properties of Comparer.compare, checked under SpecCompare.              *)
(***************************************************************************)
NameOf1(pr) == First(pr).player_name
NameOf2(pr) == Second(pr).player_name

\* the pairs the exclusion rule leaves: not both owners trusted, and two
\* different labels
Included(pr) ==
    /\ ~(NameOf1(pr) \in WHITELIST /\ NameOf2(pr) \in WHITELIST)
    /\ NameOf1(pr) # NameOf2(pr)

PairsOf(log) == [i \in 1..Len(log) |-> log[i][1]]

LexLess(p, q) == p[1] < q[1] \/ (p[1] = q[1] /\ p[2] < q[2])

\* the iterator is the Cartesian product (double) or the unordered
\* 2-combinations (single), in lexicographic order without repetition
EnumerationOrder ==
    LET n == Len(replays1)
        m == Len(replays2)
    IN  /\ \A p \in 1..Len(iterator) : \A q \in 1..Len(iterator) :
               p < q => LexLess(iterator[p], iterator[q])
        /\ mode = "double" =>
               /\ Len(iterator) = n * m
               /\ \A p \in 1..Len(iterator) :
                      iterator[p][1] \in 1..n /\ iterator[p][2] \in 1..m
        /\ mode = "single" =>
               /\ 2 * Len(iterator) = n * (n - 1)
               /\ \A p \in 1..Len(iterator) :
                      /\ iterator[p][1] \in 1..n /\ iterator[p][2] \in 1..n
                      /\ iterator[p][1] < iterator[p][2]

\* C2: comparing a trace with an exact copy of itself under another owner
\* label yields mean distance 0 and standard deviation 0.
C2_IdentityIsZero ==
    \A i \in 1..Len(compared) :
        LET pr == compared[i][1]
        IN  First(pr).play_data = Second(pr).play_data =>
                compared[i][2] = <<FZero, FZero>>

\* C5: a result is reported only when the pair's mean distance is strictly
\* below the threshold.
C5_ReportedStrictlyBelow ==
    \A i \in 1..Len(printed) : FLt(printed[i][2][1], FFromInt(threshold))

\* C6: a pair whose owners are both trusted, or carry the same label, is
\* never compared and never reported; every other enumerated pair is
\* compared exactly once, in the enumeration order of the mode.
C6_ExclusionAndOrder ==
    cpc \in {"loop", "done", "raised"} /\ mode \in {"double", "single"} =>
        /\ EnumerationOrder
        /\ PairsOf(compared) = SelectSeq(SubSeq(iterator, 1, pos), Included)
        /\ \A i \in 1..Len(printed) :
               \E c \in 1..Len(compared) : compared[c] = printed[i]
        /\ \A i \in 1..Len(drawn) :
               \E c \in 1..Len(printed) : printed[c][1] = drawn[i]
        /\ cpc = "done" => pos = Len(iterator)

\* C6 witness: a finished run that skipped a pair of identical traces of two
\* trusted owners and compared two other pairs.
C6_Witness ==
    /\ cpc = "done"
    /\ Len(compared) >= 2
    /\ \E p \in 1..Len(iterator) :
           /\ NameOf1(iterator[p]) \in WHITELIST
           /\ NameOf2(iterator[p]) \in WHITELIST
           /\ NameOf1(iterator[p]) # NameOf2(iterator[p])
           /\ First(iterator[p]).play_data = Second(iterator[p]).play_data

(***************************************************************************)
(* Properties of Replay.skip_breaks, checked under SpecBreaks.             *)
(***************************************************************************)
GapAfter(d, i) == T(d[i + 1]) - T(d[i])

\* the indices i with a break between samples i and i + 1
BreaksOf(d, thr) == {i \in 1..(Len(d) - 1) : GapAfter(d, i) > thr}

RECURSIVE SumOfGaps(_, _)
SumOfGaps(d, S) ==
    IF S = {} THEN 0
    ELSE LET i == CHOOSE x \in S : TRUE
         IN  GapAfter(d, i) + SumOfGaps(d, S \ {i})

\* the sum of the over-threshold gaps that precede sample i
ShiftAt(d, thr, i) == SumOfGaps(d, {b \in BreaksOf(d, thr) : b < i})

\* C7: skip_breaks returns as many samples as it was given, the first
\* unshifted, the coordinates unchanged, every sample shifted back by the sum
\* of the over-threshold gaps before it, the output non-decreasing in time;
\* with exactly one break of length g the samples after it are shifted by g,
\* those before it not at all, and no gap of the output exceeds the
\* threshold.
C7_BreaksCollapsed ==
    bpc = "done" =>
        LET d == b_timestamped
            thr == break_threshold
        IN  /\ Len(skipped) = Len(d)
            /\ skipped[1] = d[1]
            /\ \A i \in 1..Len(d) :
                   /\ Coords(skipped[i]) = Coords(d[i])
                   /\ T(skipped[i]) = T(d[i]) - ShiftAt(d, thr, i)
            /\ \A i \in 1..(Len(d) - 1) : GapAfter(skipped, i) >= 0
            /\ \A b \in BreaksOf(d, thr) :
                   BreaksOf(d, thr) = {b} =>
                       /\ \A i \in 1..b : T(skipped[i]) = T(d[i])
                       /\ \A i \in (b + 1)..Len(d) :
                              T(skipped[i]) = T(d[i]) - GapAfter(d, b)
                       /\ \A i \in 1..(Len(d) - 1) :
                              GapAfter(skipped, i) <= thr

\* C7 witness: a finished run over a trace with exactly one break, with
\* samples on both sides of it and a gap of exactly the threshold elsewhere.
C7_Witness ==
    /\ bpc = "done"
    /\ \E b \in 2..(Len(b_timestamped) - 2) :
           /\ BreaksOf(b_timestamped, break_threshold) = {b}
           /\ GapAfter(b_timestamped, b + 1) = break_threshold
           /\ T(skipped[b + 1]) = T(skipped[b])

(***************************************************************************)
(* Properties of Replay.resample, checked under SpecResample.              *)
(***************************************************************************)
SpanOf(d) == T(d[Len(d)]) - T(d[1])

EvenlySpaced ==
    /\ resampled # <<>> => T(resampled[1]) = FFromInt(T(r_timestamped[1]))
    /\ \A i \in 1..(Len(resampled) - 1) :
           FMul(FSub(T(resampled[i + 1]), T(resampled[i])),
                FFromInt(frequency)) = FFromInt(1000)

\* C8 as stated: resample returns exactly floor((t_max - t_min) * frequency
\* / 1000) samples, the first at t_min, each next one 1000 / frequency later.
C8_FloorCount ==
    rpc = "done" =>
        /\ Len(resampled) = (SpanOf(r_timestamped) * frequency) \div 1000
        /\ EvenlySpaced

\* C8 as amended: resample returns exactly ceil((t_max - t_min) * frequency /
\* 1000) samples (one for every target time before t_max), the first at
\* t_min, each next one 1000 / frequency later.
C8_CeilCount ==
    rpc = "done" =>
        /\ Len(resampled) =
               (SpanOf(r_timestamped) * frequency + 999) \div 1000
        /\ EvenlySpaced

\* C8 witness: a finished run over a span that is no whole multiple of the
\* step, with several samples returned.
C8_Witness ==
    /\ rpc = "done"
    /\ (SpanOf(r_timestamped) * frequency) % 1000 # 0
    /\ Len(resampled) >= 2

=============================================================================
